---- MODULE Spec2Model ----
(***************************************************************************)
(* Claude Fantasy: the multi-AI chat server (backend/app.py) and the       *)
(* single-conversation ChatOrchestrator class                              *)
(* (backend/chat_orchestrator.py).                                         *)
(*                                                                         *)
(* Spec      the FastAPI server: the in-memory store `conversations` and   *)
(*           the handlers chat, get_conversation, clear_conversation and   *)
(*           health_check, run by one asyncio event loop.                  *)
(* SpecOrch  one ChatOrchestrator object: its history, its conversation id *)
(*           and the snapshot files it saves and loads.                    *)
(* SpecPair  the server with two chat requests queued for one existing     *)
(*           conversation.                                                 *)
(* SpecTurns the turn methods of one ChatOrchestrator, in any order.       *)
(***************************************************************************)
EXTENDS Naturals, Sequences, FiniteSets, TLC

VARIABLES
    \* ---- server (app.py) ----
    conversations,   \* app.py:39  dict conv_id -> list of message dicts
    reqs,            \* the chat requests received so far, each with its handler's position
    running,         \* the chat handler the event loop is executing (0: none)
    response,        \* the HTTP response of the handler that just returned
    appended,        \* history variable: per id, the records appended since its last deletion
    deleted,         \* history variable: the ids whose conversation has been deleted
    \* ---- ChatOrchestrator (chat_orchestrator.py) ----
    conversation_id,       \* self.conversation_id
    conversation_history,  \* self.conversation_history
    files,                 \* the file system: path -> parsed JSON content
    now,                   \* the clock read by datetime.now()
    result,                \* what the last method call returned or raised
    origin                 \* history variable: path -> what save_conversation wrote it from

serverVars == <<conversations, reqs, running, response, appended, deleted>>
orchVars == <<conversation_id, conversation_history, files, now, result, origin>>
vars == <<conversations, reqs, running, response, appended, deleted,
          conversation_id, conversation_history, files, now, result, origin>>

(***************************************************************************)
(* Bounds and input alphabets                                              *)
(***************************************************************************)
NumReqs == 2          \* chat requests received in one run
MaxTurns == 4         \* records in a history built by turn methods alone (SpecTurns)
MaxHist == 2          \* records appended to a ChatOrchestrator history by its methods
MaxNow == 2           \* clock readings

ConvIds == {"c1", "c2"}
Texts == {"hi", "yo"}
AiSelectors == {"claude", "deepseek", "gpt4", "Claude", ""}
OrchTexts == {"hi"}
Replies == {"ok"}
Exceptions == {"boom"}

None == "<None>"
NoResponse == [op |-> "none"]

(***************************************************************************)
(* Strings                                                                 *)
(***************************************************************************)
\* str.upper() on the speaker names that occur
ToUpper(s) ==
    CASE s = "claude" -> "CLAUDE"
      [] s = "Claude" -> "CLAUDE"
      [] s = "deepseek" -> "DEEPSEEK"
      [] s = "human" -> "HUMAN"
      [] s = "user" -> "USER"
      [] s = "unknown" -> "UNKNOWN"
      [] s = "gpt4" -> "GPT4"
      [] s = "bot" -> "BOT"
      [] s = "" -> ""

Last(s) == s[Len(s)]
Front(s) == SubSeq(s, 1, Len(s) - 1)

(***************************************************************************)
(* Server: pure parts                                                      *)
(***************************************************************************)
\* app.py:76-80  the dict appended for the human message
HumanRecord(message) ==
    [role |-> "user", content |-> message, speaker |-> "human"]

\* app.py:93-97  the dict appended for the AI response
AiRecord(response_text, ai) ==
    [role |-> "assistant", content |-> response_text, speaker |-> ai]

\* faulty variant: the list is assigned where it should be appended to
AppendToOverwrite(convs, conv_id, rec) ==
    [c \in DOMAIN convs \cup {conv_id} |->
        IF c = conv_id THEN <<rec>> ELSE convs[c]]

\* app.py:72-80  create the conversation if missing, then append
AppendTo(convs, conv_id, rec) ==
    LET base == IF conv_id \in DOMAIN convs THEN convs[conv_id] ELSE <<>>
    IN  [c \in DOMAIN convs \cup {conv_id} |->
            IF c = conv_id THEN Append(base, rec) ELSE convs[c]]

\* faulty variant: the selector is lower-cased before it is compared
RouteCaseInsensitive(ai) ==
    IF ai \in {"claude", "Claude"} THEN "claude"
    ELSE IF ai = "deepseek" THEN "deepseek"
    ELSE "invalid"

\* app.py:83-90  the if / elif / else on message.ai
Route(ai) ==
    IF ai = "claude" THEN "claude"
    ELSE IF ai = "deepseek" THEN "deepseek"
    ELSE "invalid"

\* app.py:85,88  the display name
DisplayName(ai) == IF ai = "claude" THEN "Claude" ELSE "DeepSeek"

\* faulty variant: the target agent's own turns are left without prefix
ApiMessageWrong(msg, current_ai) ==
    LET speaker == IF "speaker" \in DOMAIN msg THEN msg.speaker ELSE "unknown"
    IN  [role |-> msg.role,
         content |-> IF speaker \notin {"human", "user", current_ai}
                     THEN "[" \o ToUpper(speaker) \o "]: " \o msg.content
                     ELSE msg.content]

\* app.py:169-180  one history record as the API sees it
ApiMessage(msg, current_ai) ==
    LET speaker == IF "speaker" \in DOMAIN msg THEN msg.speaker ELSE "unknown"
    IN  [role |-> msg.role,
         content |-> IF speaker \notin {"human", "user"}
                     THEN "[" \o ToUpper(speaker) \o "]: " \o msg.content
                     ELSE msg.content]

\* app.py:166-182  the loop over the conversation
FormatHistory(conversation, current_ai) ==
    [i \in 1..Len(conversation) |-> ApiMessage(conversation[i], current_ai)]

\* faulty variant: the record appended last is left out of the context
prepare_messages_for_apiEarlier(convs, conv_id, current_ai) ==
    LET conversation == IF conv_id \in DOMAIN convs THEN convs[conv_id] ELSE <<>>
    IN  FormatHistory(Front(conversation), current_ai)

\* app.py:161-182
prepare_messages_for_api(convs, conv_id, current_ai) ==
    LET conversation == IF conv_id \in DOMAIN convs THEN convs[conv_id] ELSE <<>>
    IN  FormatHistory(conversation, current_ai)

\* app.py:126-130, 154-158  what get_*_response returns: the reply, or the
\* text built in the except branch
ErrorText(agent, e) ==
    "Error: Unable to get response from " \o DisplayName(agent) \o ". " \o e

BackendTexts(agent) == Replies \cup {ErrorText(agent, e) : e \in Exceptions}

\* app.py:185-191
get_conversation(convs, conv_id) ==
    IF conv_id \notin DOMAIN convs THEN [messages |-> <<>>]
    ELSE [messages |-> convs[conv_id]]

\* faulty variant: the entry is emptied, not removed
clear_conversationTombstone(convs, conv_id) ==
    IF conv_id \in DOMAIN convs
    THEN [c \in DOMAIN convs |-> IF c = conv_id THEN <<>> ELSE convs[c]]
    ELSE convs

\* faulty variant: deleting an unknown id creates an empty entry
clear_conversationToggle(convs, conv_id) ==
    IF conv_id \in DOMAIN convs
    THEN [c \in DOMAIN convs \ {conv_id} |-> convs[c]]
    ELSE [c \in DOMAIN convs \cup {conv_id} |-> IF c = conv_id THEN <<>> ELSE convs[c]]

\* faulty variant: the whole store is cleared
clear_conversationAll(convs, conv_id) == <<>>

\* app.py:197-198
clear_conversation(convs, conv_id) ==
    IF conv_id \in DOMAIN convs
    THEN [c \in DOMAIN convs \ {conv_id} |-> convs[c]]
    ELSE convs

\* faulty variant: the backend call suspends the handler (an async client)
AwaitYieldsAlways == TRUE

\* app.py:84,87  `await get_claude_response(conv_id)`: the awaited coroutine
\* (106-130, 133-158) contains no await of its own and calls the synchronous
\* clients (anthropic.Anthropic, OpenAI) created at 32-36, so it runs to its
\* return without giving control back to the event loop: no other handler
\* runs between the first and the last line of chat.
AwaitYields == FALSE

(***************************************************************************)
(* Server: handlers                                                        *)
(***************************************************************************)
ReqIds == 1..Len(reqs)

SetReq(r, f) == [reqs EXCEPT ![r] = f]

\* a handler that has returned: the request object and the handler's locals
\* are gone; only how it ended is remembered
Finished(req, how) ==
    [message |-> None, ai |-> None, conversation_id |-> None,
     pc |-> how, entry |-> <<>>, messages |-> <<>>, seen |-> <<>>,
     response_text |-> None]

\* A POST /api/chat arrives and waits for the event loop (app.py:42-45, 64-65)
Receive(message, ai, conv_id) ==
    /\ Len(reqs) < NumReqs
    /\ reqs' = Append(reqs, [message |-> message, ai |-> ai, conversation_id |-> conv_id,
                             pc |-> "queued", entry |-> <<>>, messages |-> <<>>,
                             seen |-> <<>>, response_text |-> None])
    /\ response' = NoResponse
    /\ UNCHANGED <<conversations, running, appended, deleted>>

\* app.py:69-80
ChatAppendHuman(r) ==
    /\ running = 0
    /\ reqs[r].pc = "queued"
    /\ LET conv_id == reqs[r].conversation_id
           rec == HumanRecord(reqs[r].message)
       IN  /\ conversations' = AppendTo(conversations, conv_id, rec)
           /\ appended' = [appended EXCEPT ![conv_id] = Append(@, rec)]
    /\ reqs' = SetReq(r, [reqs[r] EXCEPT !.pc = "route", !.entry = conversations])
    /\ running' = r
    /\ response' = NoResponse
    /\ UNCHANGED deleted

\* app.py:83-90
ChatRoute(r) ==
    /\ running = r
    /\ reqs[r].pc = "route"
    /\ IF Route(reqs[r].ai) = "invalid"
       THEN /\ reqs' = SetReq(r, Finished(reqs[r], "rejected"))
            /\ running' = 0
            /\ response' = [op |-> "chat", req |-> r, status |-> 400,
                            detail |-> "Invalid AI selection",
                            ai |-> reqs[r].ai, entry |-> reqs[r].entry]
       ELSE /\ reqs' = SetReq(r, [reqs[r] EXCEPT !.pc = "format"])
            /\ running' = r
            /\ response' = NoResponse
    /\ UNCHANGED <<conversations, appended, deleted>>

\* app.py:110 / 137, then the request to the provider is sent (119 / 148)
ChatCallBackend(r) ==
    /\ running = r
    /\ reqs[r].pc = "format"
    /\ LET conv_id == reqs[r].conversation_id
       IN  reqs' = SetReq(r, [reqs[r] EXCEPT
                !.pc = "call",
                !.messages = prepare_messages_for_api(conversations, conv_id, Route(reqs[r].ai)),
                !.seen = IF conv_id \in DOMAIN conversations
                         THEN conversations[conv_id] ELSE <<>>])
    /\ running' = IF AwaitYields THEN 0 ELSE r
    /\ response' = NoResponse
    /\ UNCHANGED <<conversations, appended, deleted>>

\* app.py:119-130 / 148-158  the provider answers or the call raises; both
\* ways get_*_response returns a string
ChatBackendReturn(r) ==
    /\ running = r \/ (running = 0 /\ AwaitYields)
    /\ reqs[r].pc = "call"
    /\ \E text \in BackendTexts(Route(reqs[r].ai)) :
          reqs' = SetReq(r, [reqs[r] EXCEPT !.pc = "append", !.response_text = text])
    /\ running' = r
    /\ response' = NoResponse
    /\ UNCHANGED <<conversations, appended, deleted>>

\* app.py:93-103  (conversations[conv_id] raises KeyError if the id is gone)
ChatAppendReply(r) ==
    /\ running = r
    /\ reqs[r].pc = "append"
    /\ LET conv_id == reqs[r].conversation_id
           rec == AiRecord(reqs[r].response_text, reqs[r].ai)
       IN  IF conv_id \in DOMAIN conversations
           THEN /\ conversations' = AppendTo(conversations, conv_id, rec)
                /\ appended' = [appended EXCEPT ![conv_id] = Append(@, rec)]
                /\ reqs' = SetReq(r, Finished(reqs[r], "done"))
                /\ response' = [op |-> "chat", req |-> r, status |-> 200,
                                response |-> reqs[r].response_text,
                                speaker |-> DisplayName(reqs[r].ai),
                                conversation_id |-> conv_id,
                                ai |-> reqs[r].ai, context |-> reqs[r].messages]
           ELSE /\ reqs' = SetReq(r, Finished(reqs[r], "crashed"))
                /\ response' = [op |-> "chat", req |-> r, status |-> 500]
                /\ UNCHANGED <<conversations, appended>>
    /\ running' = 0
    /\ UNCHANGED deleted

\* faulty variant: reading an unknown id creates an empty conversation
\* (conversations.setdefault)
GetConversationSetDefault(conv_id) ==
    /\ running = 0
    /\ conversations' = IF conv_id \in DOMAIN conversations THEN conversations
                        ELSE [c \in DOMAIN conversations \cup {conv_id} |->
                                 IF c = conv_id THEN <<>> ELSE conversations[c]]
    /\ response' = [op |-> "get", conv_id |-> conv_id, status |-> 200,
                    body |-> get_conversation(conversations, conv_id)]
    /\ UNCHANGED <<reqs, running, appended, deleted>>

\* app.py:185-191
GetConversation(conv_id) ==
    /\ running = 0
    /\ response' = [op |-> "get", conv_id |-> conv_id, status |-> 200,
                    body |-> get_conversation(conversations, conv_id)]
    /\ UNCHANGED <<conversations, reqs, running, appended, deleted>>

\* app.py:194-200
ClearConversation(conv_id) ==
    /\ running = 0
    /\ conversations' = clear_conversation(conversations, conv_id)
    /\ appended' = [appended EXCEPT ![conv_id] = <<>>]
    /\ deleted' = IF conv_id \in DOMAIN conversations
                  THEN deleted \cup {conv_id} ELSE deleted
    /\ response' = [op |-> "delete", conv_id |-> conv_id, status |-> 200,
                    existed |-> conv_id \in DOMAIN conversations,
                    before |-> IF conv_id \in DOMAIN conversations
                               THEN <<>> ELSE conversations,
                    body |-> [status |-> "cleared", conversation_id |-> conv_id]]
    /\ UNCHANGED <<reqs, running>>

\* app.py:203-211
HealthCheck ==
    /\ running = 0
    /\ response' = [op |-> "health", status |-> 200,
                    active_conversations |-> Cardinality(DOMAIN conversations)]
    /\ UNCHANGED <<conversations, reqs, running, appended, deleted>>

(***************************************************************************)
(* ChatOrchestrator: pure parts                                            *)
(***************************************************************************)
Digits == <<"0", "1", "2", "3", "4", "5", "6", "7", "8", "9">>

\* datetime.now().isoformat() / strftime at clock reading t, as a string
isoformat(t) == "T" \o Digits[t + 1]

\* faulty variant: the timestamp given is ignored
MessageStampsNow(role, content, speaker, timestamp, t) ==
    [role |-> role, content |-> content, speaker |-> speaker,
     timestamp |-> isoformat(t)]

\* chat_orchestrator.py:15-19  Message.__init__; `timestamp or now`: None
\* and the empty string are both falsy
Message(role, content, speaker, timestamp, t) ==
    [role |-> role, content |-> content, speaker |-> speaker,
     timestamp |-> IF timestamp \in {None, ""} THEN isoformat(t) ELSE timestamp]

\* chat_orchestrator.py:21-27  Message.to_dict
to_dict(msg) ==
    [role |-> msg.role, content |-> msg.content,
     speaker |-> msg.speaker, timestamp |-> msg.timestamp]

\* chat_orchestrator.py:45-47
generate_conversation_id(t) == "conv_" \o isoformat(t)

\* chat_orchestrator.py:115-125  one Message as the API sees it
OrchApiMessage(msg) ==
    [role |-> msg.role,
     content |-> IF msg.speaker = "human" THEN msg.content
                 ELSE "[" \o ToUpper(msg.speaker) \o "]: " \o msg.content]

\* chat_orchestrator.py:108-127
prepare_messages(history) ==
    [i \in 1..Len(history) |-> OrchApiMessage(history[i])]

\* chat_orchestrator.py:84
ClaudeErrorMsg(e) == "Error getting Claude response: " \o e

\* chat_orchestrator.py:103
DeepseekPlaceholder == "[DeepSeek response - API integration pending]"

\* chat_orchestrator.py:141-144  the path written, and os.path.dirname of it
DefaultPath(id) == "conversations/" \o id \o ".json"

Dirname(path) ==
    IF path = "s.json" THEN ""
    ELSE IF path = "d/s.json" THEN "d"
    ELSE "conversations"

\* chat_orchestrator.py:146-150
Snapshot(id, history, t) ==
    [conversation_id |-> id,
     messages |-> [i \in 1..Len(history) |-> to_dict(history[i])],
     saved_at |-> isoformat(t)]

\* a file whose content json.load rejects
Unparsable == [not_json |-> TRUE]

MsgKeys == {"role", "content", "speaker", "timestamp"}

\* chat_orchestrator.py:164-170  every msg[...] lookup of the comprehension succeeds
MessagesLoadable(data) ==
    /\ "messages" \in DOMAIN data
    /\ \A i \in 1..Len(data.messages) : MsgKeys \subseteq DOMAIN data.messages[i]

\* the messages before the first one a lookup fails on (used by the faulty
\* variant below)
RECURSIVE LoadablePrefix(_, _)
LoadablePrefix(msgs, t) ==
    IF msgs = <<>> \/ ~(MsgKeys \subseteq DOMAIN Head(msgs)) THEN <<>>
    ELSE <<Message(Head(msgs).role, Head(msgs).content, Head(msgs).speaker,
                   Head(msgs).timestamp, t)>> \o LoadablePrefix(Tail(msgs), t)

\* faulty variant: the history is cleared and refilled message by message
LoadedHistoryIncremental(data, old, t) ==
    IF "messages" \in DOMAIN data THEN LoadablePrefix(data.messages, t) ELSE old

\* chat_orchestrator.py:163-171  self.conversation_history after the
\* assignment: the list is built whole before it is assigned, so a KeyError
\* inside the comprehension leaves the attribute as it was
LoadedHistory(data, old, t) ==
    IF MessagesLoadable(data)
    THEN [i \in 1..Len(data.messages) |->
            Message(data.messages[i].role, data.messages[i].content,
                    data.messages[i].speaker, data.messages[i].timestamp, t)]
    ELSE old

(***************************************************************************)
(* Snapshot files written by something other than save_conversation         *)
(***************************************************************************)
GoodMsgs ==
    { [role |-> "assistant", content |-> "ok", speaker |-> "bot", timestamp |-> "T9"],
      [role |-> "", content |-> "", speaker |-> "", timestamp |-> ""] }

BadMsgs ==
    { [content |-> "ok", speaker |-> "bot", timestamp |-> "T9"],
      [role |-> "assistant", speaker |-> "bot", timestamp |-> "T9"],
      [role |-> "assistant", content |-> "ok", timestamp |-> "T9"],
      [role |-> "assistant", content |-> "ok", speaker |-> "bot"] }

MsgLists ==
    {<<>>} \cup {<<m>> : m \in GoodMsgs \cup BadMsgs}
           \cup {<<m, n>> : m \in GoodMsgs, n \in GoodMsgs \cup BadMsgs}

ExternalSnapshots ==
    {[conversation_id |-> "x", messages |-> ms, saved_at |-> "T0"] : ms \in MsgLists}
    \cup {[conversation_id |-> "x", saved_at |-> "T0"],
          [messages |-> <<>>, saved_at |-> "T0"],
          [saved_at |-> "T0"]}
    \cup {Unparsable}

\* the file paths used: one snapshot path inside a directory, which is also
\* where snapshots from elsewhere are put, and a bare file name
ExternalPath == "d/s.json"
SavePaths == {"d/s.json", "s.json"}

(***************************************************************************)
(* ChatOrchestrator: methods                                               *)
(***************************************************************************)
\* chat_orchestrator.py:36-43
OrchInit ==
    /\ now = 1
    /\ conversation_id = generate_conversation_id(1)
    /\ conversation_history = <<>>
    /\ files = <<>>
    /\ result = NoResponse
    /\ origin = <<>>

\* time passes between two calls
Tick ==
    /\ now < MaxNow
    /\ now' = now + 1
    /\ result' = NoResponse
    /\ UNCHANGED <<conversation_id, conversation_history, files, origin>>

\* faulty variant: a human turn directly after a human turn is refused
add_human_messageAlternating(content) ==
    IF conversation_history # <<>> /\ Last(conversation_history).role = "user"
    THEN /\ result' = [op |-> "add_human_message", raised |-> TRUE,
                       before |-> conversation_history]
         /\ UNCHANGED <<conversation_id, conversation_history, files, now, origin>>
    ELSE LET msg == Message("user", content, "human", None, now)
         IN  /\ conversation_history' = Append(conversation_history, msg)
             /\ result' = [op |-> "add_human_message", raised |-> FALSE, msg |-> msg,
                           before |-> conversation_history]
             /\ UNCHANGED <<conversation_id, files, now, origin>>

\* faulty variant: the new record is inserted at the front of the history
add_human_messageInsertFront(content) ==
    /\ LET msg == Message("user", content, "human", None, now)
       IN  /\ conversation_history' = <<msg>> \o conversation_history
           /\ result' = [op |-> "add_human_message", raised |-> FALSE, msg |-> msg,
                         before |-> conversation_history]
    /\ UNCHANGED <<conversation_id, files, now, origin>>

\* chat_orchestrator.py:49-53
add_human_message(content) ==
    /\ LET msg == Message("user", content, "human", None, now)
       IN  /\ conversation_history' = Append(conversation_history, msg)
           /\ result' = [op |-> "add_human_message", raised |-> FALSE, msg |-> msg,
                         before |-> conversation_history]
    /\ UNCHANGED <<conversation_id, files, now, origin>>

\* chat_orchestrator.py:55-81  the backend answers
get_claude_response_ok(text) ==
    /\ LET messages == prepare_messages(conversation_history)
           msg == Message("assistant", text, "claude", None, now)
       IN  /\ conversation_history' = Append(conversation_history, msg)
           /\ result' = [op |-> "get_claude_response", raised |-> FALSE, failed |-> FALSE,
                         msg |-> msg, messages |-> messages,
                         before |-> conversation_history]
    /\ UNCHANGED <<conversation_id, files, now, origin>>

\* chat_orchestrator.py:55-76, 83-86  the backend call raises
get_claude_response_error(e) ==
    /\ LET messages == prepare_messages(conversation_history)
           error_msg == ClaudeErrorMsg(e)
           msg == Message("assistant", error_msg, "claude", None, now)
       IN  result' = [op |-> "get_claude_response", raised |-> FALSE, failed |-> TRUE,
                      msg |-> msg, messages |-> messages,
                      before |-> conversation_history]
    /\ UNCHANGED <<conversation_id, conversation_history, files, now, origin>>

\* chat_orchestrator.py:88-106
get_deepseek_response ==
    /\ LET msg == Message("assistant", DeepseekPlaceholder, "deepseek", None, now)
       IN  /\ conversation_history' = Append(conversation_history, msg)
           /\ result' = [op |-> "get_deepseek_response", raised |-> FALSE, msg |-> msg,
                         before |-> conversation_history]
    /\ UNCHANGED <<conversation_id, files, now, origin>>

SetFile(f, path, data) ==
    [p \in DOMAIN f \cup {path} |-> IF p = path THEN data ELSE f[p]]

\* chat_orchestrator.py:139-155
save_conversation(filepath) ==
    LET path == IF filepath = None THEN DefaultPath(conversation_id) ELSE filepath
    IN  /\ IF Dirname(path) = ""
           THEN \* os.makedirs("") raises FileNotFoundError
                /\ result' = [op |-> "save_conversation", raised |-> TRUE, path |-> path]
                /\ UNCHANGED <<files, origin>>
           ELSE /\ files' = SetFile(files, path,
                                    Snapshot(conversation_id, conversation_history, now))
                /\ origin' = SetFile(origin, path,
                                     [id |-> conversation_id, history |-> conversation_history])
                /\ result' = [op |-> "save_conversation", raised |-> FALSE, path |-> path]
        /\ UNCHANGED <<conversation_id, conversation_history, now>>

\* chat_orchestrator.py:157-173
load_conversation(filepath) ==
    /\ IF filepath \notin DOMAIN files \/ files[filepath] = Unparsable
       THEN \* open or json.load raises
            /\ result' = [op |-> "load_conversation", raised |-> TRUE, path |-> filepath,
                          before_id |-> conversation_id, before |-> conversation_history]
            /\ UNCHANGED <<conversation_id, conversation_history>>
       ELSE LET data == files[filepath]
            IN  IF "conversation_id" \notin DOMAIN data
                THEN \* KeyError at line 162
                     /\ result' = [op |-> "load_conversation", raised |-> TRUE,
                                   path |-> filepath, before_id |-> conversation_id,
                                   before |-> conversation_history]
                     /\ UNCHANGED <<conversation_id, conversation_history>>
                ELSE /\ conversation_id' = data.conversation_id
                     /\ conversation_history' = LoadedHistory(data, conversation_history, now)
                     /\ result' = IF MessagesLoadable(data)
                                  THEN [op |-> "load_conversation", raised |-> FALSE,
                                        path |-> filepath]
                                  ELSE \* KeyError inside the comprehension
                                       [op |-> "load_conversation", raised |-> TRUE,
                                        path |-> filepath, before_id |-> conversation_id,
                                        before |-> conversation_history]
    /\ UNCHANGED <<files, now, origin>>

\* a snapshot file put in place from outside the process
WriteSnapshotFile(data) ==
    /\ files' = SetFile(files, ExternalPath, data)
    /\ origin' = [p \in DOMAIN origin \ {ExternalPath} |-> origin[p]]
    /\ result' = NoResponse
    /\ UNCHANGED <<conversation_id, conversation_history, now>>

ServerInit ==
    /\ conversations = <<>>
    /\ reqs = <<>>
    /\ running = 0
    /\ response = NoResponse
    /\ appended = [c \in ConvIds |-> <<>>]
    /\ deleted = {}

Init == ServerInit /\ OrchInit

Next ==
    \/ \E m \in Texts, ai \in AiSelectors, c \in ConvIds :
          Receive(m, ai, c) /\ UNCHANGED orchVars
    \/ \E r \in ReqIds : ChatAppendHuman(r) /\ UNCHANGED orchVars
    \/ \E r \in ReqIds : ChatRoute(r) /\ UNCHANGED orchVars
    \/ \E r \in ReqIds : ChatCallBackend(r) /\ UNCHANGED orchVars
    \/ \E r \in ReqIds : ChatBackendReturn(r) /\ UNCHANGED orchVars
    \/ \E r \in ReqIds : ChatAppendReply(r) /\ UNCHANGED orchVars
    \/ \E c \in ConvIds : GetConversation(c) /\ UNCHANGED orchVars
    \/ \E c \in ConvIds : ClearConversation(c) /\ UNCHANGED orchVars
    \/ HealthCheck /\ UNCHANGED orchVars

Spec == Init /\ [][Next]_vars

\* the history is a Python list without a length limit; the exploration stops
\* appending at the bound
HasRoom(bound) == Len(conversation_history) < bound

NextOrch ==
    \/ Tick /\ UNCHANGED serverVars
    \/ HasRoom(MaxHist) /\ \E m \in OrchTexts : add_human_message(m) /\ UNCHANGED serverVars
    \/ HasRoom(MaxHist) /\ \E text \in Replies :
          get_claude_response_ok(text) /\ UNCHANGED serverVars
    \/ \E e \in Exceptions : get_claude_response_error(e) /\ UNCHANGED serverVars
    \/ HasRoom(MaxHist) /\ get_deepseek_response /\ UNCHANGED serverVars
    \/ \E p \in SavePaths : save_conversation(p) /\ UNCHANGED serverVars
    \/ \E p \in DOMAIN files \cup {"missing.json"} :
          load_conversation(p) /\ UNCHANGED serverVars
    \/ \E data \in ExternalSnapshots : WriteSnapshotFile(data) /\ UNCHANGED serverVars

SpecOrch == Init /\ [][NextOrch]_vars

\* The turn methods of one ChatOrchestrator alone, called in any order.
NextTurns ==
    \/ Tick /\ UNCHANGED serverVars
    \/ HasRoom(MaxTurns) /\ \E m \in OrchTexts : add_human_message(m) /\ UNCHANGED serverVars
    \/ HasRoom(MaxTurns) /\ \E text \in Replies :
          get_claude_response_ok(text) /\ UNCHANGED serverVars
    \/ \E e \in Exceptions : get_claude_response_error(e) /\ UNCHANGED serverVars
    \/ HasRoom(MaxTurns) /\ get_deepseek_response /\ UNCHANGED serverVars

SpecTurns == Init /\ [][NextTurns]_vars

(***************************************************************************)
(* Two chat requests waiting at once for one existing conversation         *)
(***************************************************************************)
InitialHistory == <<HumanRecord("hi"), AiRecord("ok", "claude")>>

Queued(message, ai, conv_id) ==
    [message |-> message, ai |-> ai, conversation_id |-> conv_id,
     pc |-> "queued", entry |-> <<>>, messages |-> <<>>, seen |-> <<>>,
     response_text |-> None]

InitPair ==
    /\ conversations = [c \in {"c1"} |-> InitialHistory]
    /\ appended = [c \in ConvIds |-> IF c = "c1" THEN InitialHistory ELSE <<>>]
    /\ deleted = {}
    /\ \E m1 \in Texts, m2 \in Texts, a1 \in {"claude", "deepseek"},
          a2 \in {"claude", "deepseek"} :
          reqs = <<Queued(m1, a1, "c1"), Queued(m2, a2, "c1")>>
    /\ running = 0
    /\ response = NoResponse
    /\ OrchInit

NextPair ==
    \/ \E r \in ReqIds : ChatAppendHuman(r) /\ UNCHANGED orchVars
    \/ \E r \in ReqIds : ChatRoute(r) /\ UNCHANGED orchVars
    \/ \E r \in ReqIds : ChatCallBackend(r) /\ UNCHANGED orchVars
    \/ \E r \in ReqIds : ChatBackendReturn(r) /\ UNCHANGED orchVars
    \/ \E r \in ReqIds : ChatAppendReply(r) /\ UNCHANGED orchVars

SpecPair == InitPair /\ [][NextPair]_vars

(***************************************************************************)
(* Properties                                                              *)
(***************************************************************************)
InFlight == {"route", "format", "call", "append"}

RECURSIVE CountRole(_, _)
CountRole(h, role) ==
    IF h = <<>> THEN 0
    ELSE (IF Head(h).role = role THEN 1 ELSE 0) + CountRole(Tail(h), role)

\* C1: a chat request whose agent selector is not a registered agent name is
\* answered with the 400 "Invalid AI selection" error and leaves the whole
\* store (every history and the set of known ids) as it was when the request
\* entered the handler.
C1_UnknownAgentLeavesStore ==
    (response.op = "chat" /\ response.status = 400) =>
        /\ Route(response.ai) = "invalid"
        /\ conversations = response.entry

\* C2: when the backend call of an agent turn raises, the method returns the
\* failure text instead of raising, and exactly one record carrying that text
\* and the agent's name is appended to the end of the history.
C2_FailureIsAppended ==
    (result.op = "get_claude_response" /\ result.failed) =>
        /\ ~result.raised
        /\ result.msg.speaker = "claude"
        /\ conversation_history = Append(result.before, result.msg)

\* C3: two chat requests issued together on one existing conversation both
\* complete, whatever order they run in and whatever the backends answer; the
\* initial records stay in place at the front and every request adds its
\* records behind them, one reply record per request, none lost or overwritten.
PairContribution(r) ==
    IF reqs[r].pc = "queued" THEN 0
    ELSE IF reqs[r].pc \in InFlight THEN 1
    ELSE 2

C3_TwoTurnsNoLoss ==
    /\ \A r \in ReqIds : reqs[r].pc \in {"queued", "done"} \cup InFlight
    /\ "c1" \in DOMAIN conversations
    /\ LET h == conversations["c1"]
           n == Len(InitialHistory)
       IN  /\ Len(h) = n + PairContribution(1) + PairContribution(2)
           /\ SubSeq(h, 1, n) = InitialHistory
           /\ h = appended["c1"]
           /\ (\A r \in ReqIds : reqs[r].pc = "done") =>
                 /\ CountRole(h, "assistant") = CountRole(InitialHistory, "assistant") + 2
                 /\ CountRole(h, "user") = CountRole(InitialHistory, "user") + 2
    /\ \/ \A r \in ReqIds : reqs[r].pc = "done"
       \/ ENABLED NextPair

C3_Witness ==
    /\ Len(reqs) = 2
    /\ \A r \in ReqIds : reqs[r].pc = "done"
    /\ Len(conversations["c1"]) = Len(InitialHistory) + 4
    /\ conversations["c1"][Len(InitialHistory) + 2].speaker = "deepseek"
    /\ Last(conversations["c1"]).speaker = "claude"

\* C4: an agent turn is atomic on its conversation: from the moment the
\* context is formatted until the reply is appended the stored history is
\* exactly the one that was formatted, and once the reply is appended the
\* context it was produced from is the formatting of exactly the records
\* that precede the reply record.
C4_TurnAtomic ==
    /\ \A r \in ReqIds :
          reqs[r].pc \in {"call", "append"} =>
             /\ reqs[r].conversation_id \in DOMAIN conversations
             /\ conversations[reqs[r].conversation_id] = reqs[r].seen
    /\ (response.op = "chat" /\ response.status = 200) =>
          /\ response.conversation_id \in DOMAIN conversations
          /\ LET h == conversations[response.conversation_id]
             IN  /\ h # <<>>
                 /\ Last(h) = AiRecord(response.response, response.ai)
                 /\ response.context = FormatHistory(Front(h), Route(response.ai))

C4_Witness ==
    /\ response.op = "chat"
    /\ response.status = 200
    /\ \E r \in ReqIds :
          /\ reqs[r].pc = "queued"
          /\ reqs[r].conversation_id = response.conversation_id

\* C5: reading a conversation returns exactly the records appended to it, in
\* append order, each with the four fields role, speaker, content and
\* timestamp.
C5_ReadReturnsFourFields ==
    response.op = "get" =>
        /\ response.body.messages = appended[response.conv_id]
        /\ \A i \in 1..Len(response.body.messages) :
              DOMAIN response.body.messages[i] = MsgKeys

\* C6: loading a file that save_conversation wrote gives back the saved
\* history, record for record and field for field, and the saved conversation id.
C6_RoundTrip ==
    (result.op = "load_conversation" /\ result.path \in DOMAIN origin) =>
        /\ ~result.raised
        /\ conversation_history = origin[result.path].history
        /\ conversation_id = origin[result.path].id

C6_Witness ==
    /\ result.op = "load_conversation"
    /\ result.path \in DOMAIN origin
    /\ Len(conversation_history) = 2
    /\ conversation_history[1].content = ""
    /\ conversation_history[2].speaker = "human"
    /\ conversation_id = "x"

\* C7: a load that fails (unreadable file, missing conversation id, missing
\* message list, a message lacking a field at any position) leaves the
\* history exactly as it was before the load.
C7_FailedLoadKeepsHistory ==
    (result.op = "load_conversation" /\ result.raised) =>
        conversation_history = result.before

C7_Witness ==
    /\ result.op = "load_conversation"
    /\ result.raised
    /\ conversation_history # <<>>
    /\ result.path \in DOMAIN files
    /\ LET data == files[result.path]
       IN  /\ "conversation_id" \in DOMAIN data
           /\ "messages" \in DOMAIN data
           /\ Len(data.messages) = 2
           /\ MsgKeys \subseteq DOMAIN data.messages[1]
           /\ ~(MsgKeys \subseteq DOMAIN data.messages[2])

\* C8: deletion leaves no residue: an id is in the store exactly when records
\* have been appended to it since its last deletion, and both its stored
\* history and what a read returns are exactly those records, as for an id
\* that was never seen before.
C8_NoResidue ==
    \A c \in ConvIds :
        /\ c \in DOMAIN conversations <=> appended[c] # <<>>
        /\ c \in DOMAIN conversations => conversations[c] = appended[c]
        /\ get_conversation(conversations, c).messages = appended[c]

C8_Witness ==
    \E c \in deleted :
        /\ c \in DOMAIN conversations
        /\ Len(conversations[c]) = 2

\* C9: the context formatter gives one message per record, in order; a
\* record of speaker "human" keeps its content, every other record gets
\* "[" + upper-cased speaker + "]: " in front of its content, the target
\* agent's own earlier turns included; the stored records are not changed.
Formatted(h, m) ==
    /\ Len(m) = Len(h)
    /\ \A i \in 1..Len(h) :
          /\ h[i].speaker = "human" => m[i].content = h[i].content
          /\ h[i].speaker # "human" =>
                m[i].content = "[" \o ToUpper(h[i].speaker) \o "]: " \o h[i].content

C9_OrchFormatterPrefixes ==
    result.op = "get_claude_response" =>
        Formatted(result.before, result.messages)

\* C10: deleting an id that is not in the store succeeds and leaves the
\* store unchanged, and deleting an id twice leaves the store as deleting it
\* once does.
C10_DeleteIdempotent ==
    /\ \A c \in ConvIds :
          /\ c \notin DOMAIN conversations =>
                clear_conversation(conversations, c) = conversations
          /\ clear_conversation(clear_conversation(conversations, c), c)
                = clear_conversation(conversations, c)
    /\ response.op = "delete" =>
          /\ response.status = 200
          /\ response.conv_id \notin DOMAIN conversations
          /\ ~response.existed => conversations = response.before

C10_Witness ==
    /\ response.op = "delete"
    /\ ~response.existed
    /\ conversations # <<>>

\* C11: routing is an exact, case-sensitive match with no default: a request
\* gets past the routing step (its context is formatted, a backend is called,
\* a reply record is appended, the answer is 200) exactly when its selector is
\* "claude" or "deepseek"; every other selector, "Claude" and the empty string
\* included, is answered 400 and appends no reply record.
Registered == {"claude", "deepseek"}

C11_ExactRouting ==
    /\ \A r \in ReqIds :
          /\ reqs[r].pc \in {"format", "call", "append"} => reqs[r].ai \in Registered
          /\ reqs[r].pc \in {"call", "append"} =>
                Last(reqs[r].seen).role = "user" /\ reqs[r].messages # <<>>
    /\ response.op = "chat" =>
          /\ response.status = 200 <=> response.ai \in Registered
          /\ response.status = 400 <=> response.ai \notin Registered
          /\ response.status = 200 =>
                /\ Last(conversations[response.conversation_id]).role = "assistant"
                /\ Last(conversations[response.conversation_id]).speaker = response.ai
          /\ response.status = 400 =>
                \A c \in DOMAIN conversations :
                    /\ Len(conversations[c]) >= Len(IF c \in DOMAIN response.entry
                                                    THEN response.entry[c] ELSE <<>>)
                    /\ \A i \in 1..Len(conversations[c]) :
                          (c \notin DOMAIN response.entry \/ i > Len(response.entry[c]))
                              => conversations[c][i].role = "user"

C11_Witness ==
    /\ response.op = "chat"
    /\ response.status = 400
    /\ response.ai = "Claude"
    /\ \E r \in ReqIds : reqs[r].pc = "queued" /\ reqs[r].ai = ""

\* C12: conversations are independent: a step of an operation on one id (a
\* chat request with any selector, a read, a delete) changes neither the
\* history stored under any other id nor whether that other id is in the store.
EntryOf(convs, c) == IF c \in DOMAIN convs THEN <<convs[c]>> ELSE <<>>

StepTargets ==
    {reqs[r].conversation_id : r \in {running} \cap ReqIds}
    \cup {reqs'[r].conversation_id : r \in {running'} \cap ReqIds}
    \cup (IF response'.op \in {"get", "delete"} THEN {response'.conv_id} ELSE {})

C12_OtherIdsUntouched ==
    [][\A b \in ConvIds :
          EntryOf(conversations', b) # EntryOf(conversations, b) => b \in StepTargets]_vars

C12_Witness ==
    /\ response.op = "delete"
    /\ response.existed
    /\ \E b \in DOMAIN conversations :
          b # response.conv_id /\ Len(conversations[b]) = 2

\* ---------------------------------------------------------------------------
\* C13  append-only histories

IsPrefix(a, b) == Len(a) <= Len(b) /\ SubSeq(b, 1, Len(a)) = a

\* the server's store: an id that stays in the store keeps its records as a prefix
ServerAppendOnly ==
    \A c \in DOMAIN conversations \cap DOMAIN conversations' :
        IsPrefix(conversations[c], conversations'[c])

\* the orchestrator holds the history of one id; when the id changes the old
\* conversation is no longer held (absent) and the new one starts from absent
OrchAppendOnly ==
    conversation_id' = conversation_id =>
        IsPrefix(conversation_history, conversation_history')

SuccessfulLoad == result'.op = "load_conversation" /\ ~result'.raised

\* C13 as stated: across every step the history of a conversation is equal,
\* extended at the end, or absent.  A successful load_conversation of a snapshot
\* carrying the id already held replaces the history, so this is violated.
C13_AppendOnly == [][ServerAppendOnly /\ OrchAppendOnly]_vars

\* C13 amended: across every step other than a successful load_conversation the
\* history of a conversation is equal, extended at the end, or absent; a
\* successful load_conversation replaces the held history as a whole by the
\* snapshot's records.
C13_AppendOnlyExceptLoad ==
    [][/\ ServerAppendOnly
       /\ OrchAppendOnly \/ SuccessfulLoad
       /\ SuccessfulLoad =>
             \E p \in DOMAIN files :
                 /\ result'.path = p
                 /\ Len(conversation_history') = Len(files[p].messages)
                 /\ \A i \in 1..Len(conversation_history') :
                       /\ conversation_history'[i].role = files[p].messages[i].role
                       /\ conversation_history'[i].content = files[p].messages[i].content
                       /\ conversation_history'[i].speaker = files[p].messages[i].speaker]_vars

\* the same property of the server's handlers alone (checked under Spec)
C13_ServerAppendOnly == [][ServerAppendOnly]_vars

\* an append has extended a non-empty history whose last record is different
C13_Witness ==
    /\ result.op \in {"add_human_message", "get_claude_response", "get_deepseek_response"}
    /\ ~result.raised
    /\ Len(result.before) = 1
    /\ conversation_history = Append(result.before, result.msg)
    /\ result.msg # result.before[1]

\* ---------------------------------------------------------------------------
\* C14  turn order is not enforced

TurnOps == {"add_human_message", "get_claude_response", "get_deepseek_response"}

\* C14: no turn method is refused because of the kind of the last record: each
\* of them can be called after any history, none raises, and a human turn and a
\* deepseek turn always append their record, as does a claude turn whose backend
\* answered.
C14_NoTurnOrder ==
    /\ HasRoom(MaxTurns) =>
          /\ \A m \in OrchTexts : ENABLED (add_human_message(m) /\ UNCHANGED serverVars)
          /\ \A text \in Replies :
                ENABLED (get_claude_response_ok(text) /\ UNCHANGED serverVars)
          /\ ENABLED (get_deepseek_response /\ UNCHANGED serverVars)
    /\ result.op \in TurnOps =>
          /\ ~result.raised
          /\ (result.op = "get_claude_response" /\ result.failed)
             \/ conversation_history = Append(result.before, result.msg)

\* two human turns in a row followed by two agent turns in a row
C14_Witness ==
    /\ Len(conversation_history) = 4
    /\ conversation_history[1].role = "user"
    /\ conversation_history[2].role = "user"
    /\ conversation_history[3].role = "assistant"
    /\ conversation_history[4].role = "assistant"
    /\ result.op = "get_deepseek_response"

\* ---------------------------------------------------------------------------
\* C15  every completed agent turn appends one record

AgentOf(op) == IF op = "get_claude_response" THEN "claude" ELSE "deepseek"

\* C15: a completed agent turn for agent a leaves the history extended by
\* exactly one record, placed last, with the assistant role, speaker a and the
\* text returned to the caller; a human turn followed by a claude turn on a
\* fresh conversation gives a history of length 2 with speakers human, claude.
C15_AgentTurnAppendsOne ==
    (result.op \in {"get_claude_response", "get_deepseek_response"} /\ ~result.raised) =>
        /\ Len(conversation_history) = Len(result.before) + 1
        /\ Front(conversation_history) = result.before
        /\ Last(conversation_history).role = "assistant"
        /\ Last(conversation_history).speaker = AgentOf(result.op)
        /\ Last(conversation_history).content = result.msg.content
        /\ (result.op = "get_claude_response"
              /\ Len(result.before) = 1 /\ result.before[1].speaker = "human") =>
                 /\ Len(conversation_history) = 2
                 /\ conversation_history[1].speaker = "human"
                 /\ conversation_history[2].speaker = "claude"

\* the same property of the server's chat handler (checked under Spec): a chat
\* answered with 200 has put one assistant record, tagged with the requested
\* agent and carrying the returned text, at the end of the conversation
C15_ServerAgentTurn ==
    (response.op = "chat" /\ response.status = 200) =>
        LET h == conversations[response.conversation_id]
        IN  /\ Len(h) >= 2
            /\ Last(h) = AiRecord(response.response, response.ai)
            /\ Front(h)[Len(h) - 1].role = "user"

\* ---------------------------------------------------------------------------
\* C16  reads are free of side effects

AppendedIds == {c \in ConvIds : appended[c] # <<>>}

ReadsKeepStore ==
    /\ response'.op \in {"get", "health"} => conversations' = conversations
    /\ \A r \in ReqIds :
          (reqs[r].pc = "format" /\ reqs'[r].pc = "call") => conversations' = conversations

\* C16: fetching an unknown id answers 200 with an empty sequence and does not
\* create the conversation; neither get_conversation, health_check nor the
\* formatting step of chat changes the store; the count reported by
\* health_check is the number of ids appended to since their last deletion.
C16_ReadsSideEffectFree ==
    /\ [](/\ DOMAIN conversations = AppendedIds
          /\ response.op = "health" =>
                /\ response.status = 200
                /\ response.active_conversations = Cardinality(AppendedIds)
          /\ response.op = "get" =>
                /\ response.status = 200
                /\ response.body.messages = appended[response.conv_id]
                /\ response.conv_id \in DOMAIN conversations
                      <=> appended[response.conv_id] # <<>>)
    /\ [][ReadsKeepStore]_vars

\* an unknown id was fetched while the store holds another conversation, after
\* a deletion
C16_Witness ==
    /\ response.op = "get"
    /\ response.conv_id \notin DOMAIN conversations
    /\ response.body.messages = <<>>
    /\ DOMAIN conversations # {}
    /\ response.conv_id \in deleted

\* ---------------------------------------------------------------------------
\* C17  a failed load leaves the whole orchestrator state unchanged

\* C17: after a load_conversation call that raised, the conversation id and the
\* history are both what they were before the call.
C17_FailedLoadKeepsIdAndHistory ==
    (result.op = "load_conversation" /\ result.raised) =>
        /\ conversation_id = result.before_id
        /\ conversation_history = result.before

\* ---------------------------------------------------------------------------
\* C18  a chat request interleaved with a delete of its conversation

\* C18: a chat request that has appended its human turn finds its conversation
\* in the store at every later step, the reply-append included: the event loop
\* runs it to its return before any delete is served, so no chat request ends
\* in the KeyError of the reply-append and every chat response is 200 or 400.
C18_ReplyAppendFindsConversation ==
    /\ \A r \in ReqIds :
          /\ reqs[r].pc \in InFlight =>
                /\ running = r
                /\ reqs[r].conversation_id \in DOMAIN conversations
                /\ ENABLED (/\ \/ ChatRoute(r) \/ ChatCallBackend(r)
                               \/ ChatBackendReturn(r) \/ ChatAppendReply(r)
                            /\ UNCHANGED orchVars)
          /\ reqs[r].pc # "crashed"
    /\ response.op = "chat" => response.status \in {200, 400}

\* a chat request was answered on an id that was deleted after the request
\* had been received
C18_Witness ==
    /\ response.op = "chat"
    /\ response.status = 200
    /\ response.conversation_id \in deleted
    /\ Len(conversations[response.conversation_id]) = 2
    /\ Len(response.context) = 1

\* ---------------------------------------------------------------------------
\* C19  the context includes the request's own human turn

\* C19: the context a chat request hands to its backend has one message per
\* record of the conversation's history, the record the request itself
\* appended included: it is never empty, it is one longer than the history the
\* request found, and its last message is the request's message with the user
\* role and the content as sent.
C19_ContextIncludesOwnTurn ==
    \A r \in ReqIds :
        reqs[r].pc \in {"call", "append"} =>
            LET c == reqs[r].conversation_id
                found == IF c \in DOMAIN reqs[r].entry THEN reqs[r].entry[c] ELSE <<>>
            IN  /\ reqs[r].messages # <<>>
                /\ Len(reqs[r].messages) = Len(found) + 1
                /\ Len(reqs[r].messages) = Len(conversations[c])
                /\ Last(reqs[r].messages) = [role |-> "user", content |-> reqs[r].message]

\* the backend is being called on a conversation that already held a full turn
C19_Witness ==
    \E r \in ReqIds :
        /\ reqs[r].pc = "append"
        /\ Len(reqs[r].messages) = 3
        /\ reqs[r].messages[1].content # reqs[r].message
        /\ reqs[r].messages[3] = [role |-> "user", content |-> reqs[r].message]
====
